---- MODULE Spec2Model ----
(***************************************************************************)
(* Model of the activity extractor: the AI agent service (ai_agent.py),    *)
(* the interactive driver (extract_activity.py) and the automation driver  *)
(* (extract_for_actions.py).                                               *)
(*                                                                         *)
(* Python values are tagged tuples <<tag, payload>>; strings are sequences *)
(* of one-character strings, so that formatting and parsing are computed.  *)
(* A text (an error message) is a sequence of pieces: literal fragments of *)
(* an f-string and formatted values.                                       *)
(***************************************************************************)
EXTENDS Integers, Sequences, FiniteSets, TLC

----------------------------------------------------------------------------
(* Python values *)

PyStr(s) == <<"str", s>>
PyInt(n) == <<"int", n>>
PyBool(b) == <<"bool", b>>
PyNone == <<"null">>
PyList(xs) == <<"list", xs>>
PyDict(d) == <<"dict", d>>

IsStr(v) == v[1] = "str"
\* isinstance(v, int): bool is a subclass of int in Python
IsInt(v) == v[1] \in {"int", "bool"}
IsList(v) == v[1] = "list"
IsDict(v) == v[1] = "dict"

\* Python truthiness: `not v`
Falsy(v) ==
    \/ v[1] = "null"
    \/ v[1] = "bool" /\ v[2] = FALSE
    \/ v[1] = "int" /\ v[2] = 0
    \/ v[1] = "str" /\ v[2] = <<>>
    \/ v[1] = "list" /\ v[2] = <<>>
    \/ v[1] = "dict" /\ DOMAIN v[2] = {}

\* the scalars: what a set can hold
Hashable(v) == v[1] \in {"str", "int", "bool", "null"}

\* dict.get(key): PyNone when the key is absent
Get(d, k) == IF k \in DOMAIN d[2] THEN d[2][k] ELSE PyNone

\* Python ==, as `in` uses it: True == 1 and False == 0, otherwise by type and value
PyEq(a, b) ==
    IF a[1] \in {"int", "bool"} /\ b[1] \in {"int", "bool"}
    THEN (IF a[1] = "bool" THEN (IF a[2] THEN 1 ELSE 0) ELSE a[2])
         = (IF b[1] = "bool" THEN (IF b[2] THEN 1 ELSE 0) ELSE b[2])
    ELSE a = b

\* x in list
InList(x, xs) == \E i \in DOMAIN xs : PyEq(x, xs[i])

----------------------------------------------------------------------------
(* Texts *)

Lit(s) == <<"lit", s>>
Chars(cs) == <<"chars", cs>>

Digit(d) == CASE d = 0 -> "0" [] d = 1 -> "1" [] d = 2 -> "2" [] d = 3 -> "3"
              [] d = 4 -> "4" [] d = 5 -> "5" [] d = 6 -> "6" [] d = 7 -> "7"
              [] d = 8 -> "8" [] d = 9 -> "9"

RECURSIVE NatChars(_)
NatChars(n) == IF n < 10 THEN <<Digit(n)>> ELSE NatChars(n \div 10) \o <<Digit(n % 10)>>

\* str(n) of an integer
IntChars(n) == IF n < 0 THEN <<"-">> \o NatChars(-n) ELSE NatChars(n)

\* sep.join(texts)
RECURSIVE Join(_, _)
Join(sep, texts) ==
    IF texts = <<>> THEN <<>>
    ELSE IF Len(texts) = 1 THEN texts[1]
    ELSE texts[1] \o <<sep>> \o Join(sep, Tail(texts))

----------------------------------------------------------------------------
(* AIAgentService.validate_extracted_data *)

Categories == {<<"c","o","n","f","e","r","e","n","c","e">>,
               <<"c","o","m","p","e","t","i","t","i","o","n">>,
               <<"a","c","t","i","v","i","t","y">>}

ErrTitle == <<Lit("Missing or invalid title")>>
ErrDescription == <<Lit("Missing or invalid description")>>
ErrCategory == <<Lit("Invalid category (must be conference, competition, or activity)")>>
ErrTags == <<Lit("Tags must be a non-empty array")>>
ErrEvents == <<Lit("Events must be a non-empty array")>>

EventPrefix(index) == <<Lit("Event "), Chars(IntChars(index)), Lit(": ")>>
ErrEventId(index) == EventPrefix(index) \o <<Lit("Missing or invalid id")>>
ErrEventDuplicate(index, id) ==
    EventPrefix(index) \o <<Lit("Duplicate ID '"), Chars(id), Lit("'")>>
ErrEventYear(index) == EventPrefix(index) \o <<Lit("Missing or invalid year")>>
ErrEventLink(index) == EventPrefix(index) \o <<Lit("Missing or invalid link")>>
ErrEventTimeline(index) == EventPrefix(index) \o <<Lit("Timeline must be a non-empty array")>>
ErrEventTimezone(index) == EventPrefix(index) \o <<Lit("Missing or invalid timezone")>>

\* the id rule without its elif branch: a known id is not looked up
EventIdErrorsNoLookup(event, index, existing_ids) ==
    IF Falsy(Get(event, "id")) \/ ~IsStr(Get(event, "id"))
    THEN <<ErrEventId(index)>>
    ELSE <<>>

\* the id rule of one event: the if / elif of lines 301-304
EventIdErrors(event, index, existing_ids) ==
    IF Falsy(Get(event, "id")) \/ ~IsStr(Get(event, "id"))
    THEN <<ErrEventId(index)>>
    ELSE IF InList(Get(event, "id"), existing_ids)
    THEN <<ErrEventDuplicate(index, Get(event, "id")[2])>>
    ELSE <<>>

\* the rules of one event as an if / elif chain: only the first error of the event
EventErrorsFirstOnly(event, index, existing_ids) ==
    IF EventIdErrors(event, index, existing_ids) # <<>>
    THEN EventIdErrors(event, index, existing_ids)
    ELSE IF Falsy(Get(event, "year")) \/ ~IsInt(Get(event, "year"))
    THEN <<ErrEventYear(index)>>
    ELSE IF Falsy(Get(event, "link")) \/ ~IsStr(Get(event, "link"))
    THEN <<ErrEventLink(index)>>
    ELSE IF ~IsList(Get(event, "timeline")) \/ Len(Get(event, "timeline")[2]) = 0
    THEN <<ErrEventTimeline(index)>>
    ELSE IF Falsy(Get(event, "timezone")) \/ ~IsStr(Get(event, "timezone"))
    THEN <<ErrEventTimezone(index)>>
    ELSE <<>>

\* the body of the loop over events for one event (a dict), index counted from 0
EventErrors(event, index, existing_ids) ==
    EventIdErrors(event, index, existing_ids)
    \o (IF Falsy(Get(event, "year")) \/ ~IsInt(Get(event, "year"))
        THEN <<ErrEventYear(index)>> ELSE <<>>)
    \o (IF Falsy(Get(event, "link")) \/ ~IsStr(Get(event, "link"))
        THEN <<ErrEventLink(index)>> ELSE <<>>)
    \o (IF ~IsList(Get(event, "timeline")) \/ Len(Get(event, "timeline")[2]) = 0
        THEN <<ErrEventTimeline(index)>> ELSE <<>>)
    \o (IF Falsy(Get(event, "timezone")) \/ ~IsStr(Get(event, "timezone"))
        THEN <<ErrEventTimezone(index)>> ELSE <<>>)

\* the loop over data['events'] from position i (1-based here, index i - 1 in the
\* code); event.get raises AttributeError on an event that is not a dict
RECURSIVE EventsLoop(_, _, _)
EventsLoop(events, i, existing_ids) ==
    IF i > Len(events) THEN [raised |-> FALSE, errors |-> <<>>]
    ELSE IF ~IsDict(events[i]) THEN [raised |-> TRUE, errors |-> <<>>]
    ELSE LET rest == EventsLoop(events, i + 1, existing_ids)
         IN  [raised |-> rest.raised,
              errors |-> EventErrors(events[i], i - 1, existing_ids) \o rest.errors]

RecordErrors(data) ==
       (IF Falsy(Get(data, "title")) \/ ~IsStr(Get(data, "title"))
        THEN <<ErrTitle>> ELSE <<>>)
    \o (IF Falsy(Get(data, "description")) \/ ~IsStr(Get(data, "description"))
        THEN <<ErrDescription>> ELSE <<>>)
    \o (IF ~(IsStr(Get(data, "category")) /\ Get(data, "category")[2] \in Categories)
        THEN <<ErrCategory>> ELSE <<>>)
    \o (IF ~IsList(Get(data, "tags")) \/ Len(Get(data, "tags")[2]) = 0
        THEN <<ErrTags>> ELSE <<>>)
    \o (IF ~IsList(Get(data, "events")) \/ Len(Get(data, "events")[2]) = 0
        THEN <<ErrEvents>> ELSE <<>>)

\* result: raised (data.get or event.get on a value that is not a dict), or the
\* dict {'valid', 'errors', 'warnings'}; errors is PyNone when the list is empty
validate_extracted_data(data, existing_ids) ==
    IF ~IsDict(data) THEN [raised |-> TRUE, valid |-> FALSE, errors |-> PyNone, warnings |-> PyNone]
    ELSE LET loop == IF IsList(Get(data, "events"))
                     THEN EventsLoop(Get(data, "events")[2], 1, existing_ids)
                     ELSE [raised |-> FALSE, errors |-> <<>>]
             errors == RecordErrors(data) \o loop.errors
         IN  IF loop.raised
             THEN [raised |-> TRUE, valid |-> FALSE, errors |-> PyNone, warnings |-> PyNone]
             ELSE [raised |-> FALSE,
                   valid |-> Len(errors) = 0,
                   errors |-> IF errors # <<>> THEN PyList(errors) ELSE PyNone,
                   warnings |-> PyNone]

----------------------------------------------------------------------------
(* str() of a value inside an f-string *)

C_True == <<"T","r","u","e">>
C_False == <<"F","a","l","s","e">>
C_None == <<"N","o","n","e">>

PyFormat(v) ==
    CASE v[1] = "str" -> v[2]
      [] v[1] = "int" -> IntChars(v[2])
      [] v[1] = "bool" -> (IF v[2] THEN C_True ELSE C_False)
      [] v[1] = "null" -> C_None

NL == Lit("\n")

----------------------------------------------------------------------------
(* AIAgentService.to_yaml: the list yaml_lines, one text per appended line *)

\* event['timeline'] entries: timeline['deadline'] and timeline['comment'] raise
\* TypeError on an entry that is not a dict and KeyError on a missing key
TimelineOk(entry) ==
    /\ IsDict(entry)
    /\ "deadline" \in DOMAIN entry[2]
    /\ "comment" \in DOMAIN entry[2]

RECURSIVE TimelineLines(_)
TimelineLines(timeline) ==
    IF timeline = <<>> THEN <<>>
    ELSE << <<Lit("        - deadline: '"), Chars(PyFormat(timeline[1][2]["deadline"])), Lit("'")>>,
            <<Lit("          comment: '"), Chars(PyFormat(timeline[1][2]["comment"])), Lit("'")>> >>
         \o TimelineLines(Tail(timeline))

EventOk(event) ==
    /\ "date" \in DOMAIN event[2]
    /\ "place" \in DOMAIN event[2]
    /\ \A i \in DOMAIN event[2]["timeline"][2] : TimelineOk(event[2]["timeline"][2][i])

EventLines(event) ==
    << <<Lit("    - year: "), Chars(PyFormat(event[2]["year"]))>>,
       <<Lit("      id: "), Chars(PyFormat(event[2]["id"]))>>,
       <<Lit("      link: "), Chars(PyFormat(event[2]["link"]))>>,
       <<Lit("      timeline:")>> >>
    \o TimelineLines(event[2]["timeline"][2])
    \o << <<Lit("      timezone: "), Chars(PyFormat(event[2]["timezone"]))>>,
          <<Lit("      date: "), Chars(PyFormat(event[2]["date"]))>>,
          <<Lit("      place: "), Chars(PyFormat(event[2]["place"]))>> >>

RECURSIVE EventsLines(_)
EventsLines(events) ==
    IF events = <<>> THEN <<>> ELSE EventLines(events[1]) \o EventsLines(Tail(events))

RECURSIVE TagLines(_)
TagLines(tags) ==
    IF tags = <<>> THEN <<>>
    ELSE << <<Lit("    - "), Chars(PyFormat(tags[1]))>> >> \o TagLines(Tail(tags))

\* data['title'] ... data['events'] and event['year'] ... raise KeyError on a
\* missing key, and TypeError where the value subscripted is no object; data
\* that passed validation has the keys checked here except date and place
RecordOk(data) ==
    /\ IsDict(data)
    /\ {"title", "description", "category", "tags", "events"} \subseteq DOMAIN data[2]
    /\ IsList(data[2]["tags"])
    /\ IsList(data[2]["events"])
    /\ \A i \in DOMAIN data[2]["events"][2] :
          /\ IsDict(data[2]["events"][2][i])
          /\ {"year", "id", "link", "timeline", "timezone"} \subseteq DOMAIN data[2]["events"][2][i][2]
          /\ IsList(data[2]["events"][2][i][2]["timeline"])
          /\ EventOk(data[2]["events"][2][i])

\* the text '\n'.join(yaml_lines), or raised where a subscript fails (a timeline
\* entry without deadline or comment, an event without date or place)
to_yaml(data) ==
    IF ~RecordOk(data)
    THEN [raised |-> TRUE, text |-> <<>>]
    ELSE [raised |-> FALSE,
          text |-> Join(NL,
              << <<Lit("- title: "), Chars(PyFormat(data[2]["title"]))>>,
                 <<Lit("  description: "), Chars(PyFormat(data[2]["description"]))>>,
                 <<Lit("  category: "), Chars(PyFormat(data[2]["category"]))>>,
                 <<Lit("  tags:")>> >>
              \o TagLines(data[2]["tags"][2])
              \o << <<Lit("  events:")>> >>
              \o EventsLines(data[2]["events"][2]))]

\* output_file = data_dir / f'{category}s.yml'
OutputFile(category) == category \o <<"s", ".", "y", "m", "l">>

\* the file opened with mode 'w': what it held is gone
AppendBlockTruncating(content, yaml_content) == <<NL>> \o yaml_content \o <<NL>>

\* with open(output_file, 'a'): f.write('\n'); f.write(yaml_content); f.write('\n')
AppendBlock(content, yaml_content) == content \o <<NL>> \o yaml_content \o <<NL>>

----------------------------------------------------------------------------
(* yaml.safe_load, on the texts a store holds: blocks written by to_yaml  *)
(* and lines that are no YAML. Scalars are resolved character by character *)
(* as PyYAML's resolver does for the characters of PlainSafe.              *)

YamlError == <<"error">>

Digits == {"0", "1", "2", "3", "4", "5", "6", "7", "8", "9"}
Letters == {"a", "b", "c", "d", "e", "f", "g", "h", "i", "j", "k", "l", "m",
            "n", "o", "p", "q", "r", "s", "t", "u", "v", "w", "x", "y", "z",
            "T", "F", "N"}
PlainSafe == Digits \cup Letters \cup {"-", ":", " ", "/"}

DigitVal(c) == CASE c = "0" -> 0 [] c = "1" -> 1 [] c = "2" -> 2 [] c = "3" -> 3
                 [] c = "4" -> 4 [] c = "5" -> 5 [] c = "6" -> 6 [] c = "7" -> 7
                 [] c = "8" -> 8 [] c = "9" -> 9

RECURSIVE NatVal(_)
NatVal(s) == IF s = <<>> THEN 0 ELSE 10 * NatVal(SubSeq(s, 1, Len(s) - 1)) + DigitVal(s[Len(s)])

\* [-+]?(0|[1-9][0-9]*): the decimal form of the int resolver
IsDecimal(s) ==
    /\ s # <<>>
    /\ \A i \in DOMAIN s : s[i] \in Digits
    /\ (s[1] = "0" => Len(s) = 1)

HasSub(s, sub) ==
    \E i \in 1..(Len(s) - Len(sub) + 1) : SubSeq(s, i, i + Len(sub) - 1) = sub

YamlTrueWords == {<<"t","r","u","e">>, <<"T","r","u","e">>, <<"y","e","s">>, <<"o","n">>}
YamlFalseWords == {<<"f","a","l","s","e">>, <<"F","a","l","s","e">>, <<"n","o">>, <<"o","f","f">>}
YamlNullWords == {<<"n","u","l","l">>, <<"N","u","l","l">>}

\* a ': ' inside or a ':' at the end starts a mapping; a leading '- ' a sequence
StartsMapping(s) == HasSub(s, <<":", " ">>) \/ (s # <<>> /\ s[Len(s)] = ":")
StartsSequence(s) == s # <<>> /\ s[1] = "-" /\ (Len(s) = 1 \/ s[2] = " ")

\* leading and trailing spaces are no part of a plain scalar
RECURSIVE Strip(_)
Strip(s) ==
    IF s = <<>> THEN s
    ELSE IF s[1] = " " THEN Strip(Tail(s))
    ELSE IF s[Len(s)] = " " THEN Strip(SubSeq(s, 1, Len(s) - 1))
    ELSE s

\* a plain scalar written after 'key: ' (ctx "value") or after '- ' (ctx "entry")
YamlPlain(text, ctx) ==
    LET s == Strip(text)
    IN  CASE s = <<>> -> PyNone
          [] s # <<>> /\ (\A i \in DOMAIN s : s[i] \in PlainSafe) ->
                IF StartsMapping(s) \/ StartsSequence(s)
                THEN (IF ctx = "value" THEN YamlError
                      ELSE IF StartsSequence(s) THEN PyList(<<PyStr(s)>>)
                      ELSE PyDict([nested |-> PyStr(s)]))
                ELSE IF IsDecimal(s) THEN PyInt(NatVal(s))
                ELSE IF s[1] = "-" /\ IsDecimal(Tail(s)) THEN PyInt(-NatVal(Tail(s)))
                ELSE IF s \in YamlTrueWords THEN PyBool(TRUE)
                ELSE IF s \in YamlFalseWords THEN PyBool(FALSE)
                ELSE IF s \in YamlNullWords THEN PyNone
                ELSE PyStr(s)

\* a single-quoted scalar: the text between the quotes, always a string
YamlQuoted(s) ==
    CASE \A i \in DOMAIN s : s[i] \in PlainSafe -> PyStr(s)

\* the lines of a text: split at the newline pieces, blank lines dropped
RECURSIVE SplitLines(_, _)
SplitLines(content, cur) ==
    IF content = <<>> THEN (IF cur = <<>> THEN <<>> ELSE <<cur>>)
    ELSE IF content[1] = NL
         THEN (IF cur = <<>> THEN <<>> ELSE <<cur>>) \o SplitLines(Tail(content), <<>>)
         ELSE SplitLines(Tail(content), Append(cur, content[1]))

KindAt(lines, i) == IF i <= Len(lines) THEN lines[i][1][2] ELSE "<eof>"
ValAt(lines, i) == IF Len(lines[i]) >= 2 THEN lines[i][2][2] ELSE <<>>

KindsFrom(lines, i, kinds) == \A k \in DOMAIN kinds : KindAt(lines, i + k - 1) = kinds[k]

RECURSIVE ParseTags(_, _)
ParseTags(lines, i) ==
    IF KindAt(lines, i) # "    - " THEN [err |-> FALSE, items |-> <<>>, next |-> i]
    ELSE LET v == YamlPlain(ValAt(lines, i), "entry")
             rest == ParseTags(lines, i + 1)
         IN  [err |-> rest.err, items |-> <<v>> \o rest.items, next |-> rest.next]

RECURSIVE ParseTimeline(_, _)
ParseTimeline(lines, i) ==
    IF ~KindsFrom(lines, i, <<"        - deadline: '", "          comment: '">>)
    THEN [err |-> FALSE, items |-> <<>>, next |-> i]
    ELSE LET rest == ParseTimeline(lines, i + 2)
         IN  [err |-> rest.err,
              items |-> <<PyDict([deadline |-> YamlQuoted(ValAt(lines, i)),
                                  comment |-> YamlQuoted(ValAt(lines, i + 1))])>>
                        \o rest.items,
              next |-> rest.next]

\* an empty block sequence ('tags:' with nothing under it) loads as None
SeqOrNone(items) == IF items = <<>> THEN PyNone ELSE PyList(items)

RECURSIVE ParseEvents(_, _)
ParseEvents(lines, i) ==
    IF KindAt(lines, i) # "    - year: " THEN [err |-> FALSE, items |-> <<>>, next |-> i]
    ELSE IF ~KindsFrom(lines, i, <<"    - year: ", "      id: ", "      link: ", "      timeline:">>)
    THEN [err |-> TRUE, items |-> <<>>, next |-> i]
    ELSE LET tl == ParseTimeline(lines, i + 4)
             j == tl.next
         IN  IF ~KindsFrom(lines, j, <<"      timezone: ", "      date: ", "      place: ">>)
             THEN [err |-> TRUE, items |-> <<>>, next |-> j]
             ELSE LET event == [year |-> YamlPlain(ValAt(lines, i), "value"),
                                id |-> YamlPlain(ValAt(lines, i + 1), "value"),
                                link |-> YamlPlain(ValAt(lines, i + 2), "value"),
                                timeline |-> SeqOrNone(tl.items),
                                timezone |-> YamlPlain(ValAt(lines, j), "value"),
                                date |-> YamlPlain(ValAt(lines, j + 1), "value"),
                                place |-> YamlPlain(ValAt(lines, j + 2), "value")]
                      rest == ParseEvents(lines, j + 3)
                  IN  [err |-> rest.err \/ tl.err \/ (\E k \in DOMAIN event : event[k] = YamlError),
                       items |-> <<PyDict(event)>> \o rest.items,
                       next |-> rest.next]

RECURSIVE ParseRecords(_, _)
ParseRecords(lines, i) ==
    IF i > Len(lines) THEN [err |-> FALSE, items |-> <<>>]
    ELSE IF ~KindsFrom(lines, i, <<"- title: ", "  description: ", "  category: ", "  tags:">>)
    THEN [err |-> TRUE, items |-> <<>>]
    ELSE LET tags == ParseTags(lines, i + 4)
         IN  IF KindAt(lines, tags.next) # "  events:" THEN [err |-> TRUE, items |-> <<>>]
             ELSE LET events == ParseEvents(lines, tags.next + 1)
                      item == [title |-> YamlPlain(ValAt(lines, i), "value"),
                               description |-> YamlPlain(ValAt(lines, i + 1), "value"),
                               category |-> YamlPlain(ValAt(lines, i + 2), "value"),
                               tags |-> SeqOrNone(tags.items),
                               events |-> SeqOrNone(events.items)]
                      rest == ParseRecords(lines, events.next)
                  IN  [err |-> rest.err \/ events.err
                                 \/ item.title = YamlError \/ item.description = YamlError
                                 \/ item.category = YamlError,
                       items |-> <<PyDict(item)>> \o rest.items]

\* yaml.safe_load(f): raises on a text that is no YAML; None for an empty text
safe_load(content) ==
    LET parsed == ParseRecords(SplitLines(content, <<>>), 1)
    IN  IF parsed.err THEN [raised |-> TRUE, data |-> PyNone]
        ELSE [raised |-> FALSE, data |-> SeqOrNone(parsed.items)]

----------------------------------------------------------------------------
(* load_existing_data (the same function in both drivers) *)

\* the characters in code point order, for the order of str
Alphabet == <<" ", "-", "/", "0", "1", "2", "3", "4", "5", "6", "7", "8", "9", ":",
              "F", "N", "T",
              "a", "b", "c", "d", "e", "f", "g", "h", "i", "j", "k", "l", "m",
              "n", "o", "p", "q", "r", "s", "t", "u", "v", "w", "x", "y", "z">>
CharCode(c) == CHOOSE i \in DOMAIN Alphabet : Alphabet[i] = c

RECURSIVE StrLeq(_, _)
StrLeq(a, b) ==
    IF a = <<>> THEN TRUE
    ELSE IF b = <<>> THEN FALSE
    ELSE IF a[1] = b[1] THEN StrLeq(Tail(a), Tail(b))
    ELSE CharCode(a[1]) < CharCode(b[1])

NumOf(v) == IF v[1] = "bool" THEN (IF v[2] THEN 1 ELSE 0) ELSE v[2]

\* set.add: an element equal to one already in the set is not added
SetAdd(S, v) == IF \E x \in S : PyEq(x, v) THEN S ELSE S \cup {v}

\* '<' is defined between two str and between two numbers, and raises TypeError otherwise
Comparable(S) ==
    \/ Cardinality(S) <= 1
    \/ \A x \in S : x[1] = "str"
    \/ \A x \in S : x[1] \in {"int", "bool"}

PyLeq(a, b) == IF a[1] = "str" THEN StrLeq(a[2], b[2]) ELSE NumOf(a) <= NumOf(b)

RECURSIVE SortedSeq(_)
SortedSeq(S) ==
    IF S = {} THEN <<>>
    ELSE LET m == CHOOSE x \in S : \A y \in S : PyLeq(x, y)
         IN  <<m>> \o SortedSeq(S \ {m})

\* all_tags.update(values): the elements are added one by one; an unhashable
\* one raises TypeError after the ones before it were added
RECURSIVE UpdateSet(_, _)
UpdateSet(S, values) ==
    IF values = <<>> THEN [raised |-> FALSE, set |-> S]
    ELSE IF ~Hashable(values[1]) THEN [raised |-> TRUE, set |-> S]
    ELSE UpdateSet(SetAdd(S, values[1]), Tail(values))

\* for event in item['events']: if 'id' in event: all_ids.add(event['id'])
RECURSIVE CollectIds(_, _)
CollectIds(S, events) ==
    IF events = <<>> THEN [raised |-> FALSE, set |-> S]
    ELSE IF ~IsDict(events[1]) /\ ~IsList(events[1]) /\ ~IsStr(events[1])
    THEN [raised |-> TRUE, set |-> S]
    ELSE IF IsDict(events[1]) /\ "id" \in DOMAIN events[1][2]
    THEN (IF ~Hashable(events[1][2]["id"]) THEN [raised |-> TRUE, set |-> S]
          ELSE CollectIds(SetAdd(S, events[1][2]["id"]), Tail(events)))
    ELSE CollectIds(S, Tail(events))

\* all_tags.update(item['tags']) for a record that has the key
ItemTags(S, item) ==
    IF "tags" \notin DOMAIN item[2] THEN [raised |-> FALSE, set |-> S]
    ELSE IF IsList(item[2]["tags"]) THEN UpdateSet(S, item[2]["tags"][2])
    ELSE [raised |-> TRUE, set |-> S]

\* the loop over item['events'] for a record that has the key
ItemIds(S, item) ==
    IF "events" \notin DOMAIN item[2] THEN [raised |-> FALSE, set |-> S]
    ELSE IF IsList(item[2]["events"]) THEN CollectIds(S, item[2]["events"][2])
    ELSE [raised |-> TRUE, set |-> S]

\* one record: the tags first, and the ids unless the tags raised
CollectItem(acc, t, item) ==
    IF t.raised THEN [tags |-> t.set, ids |-> acc.ids, raised |-> TRUE]
    ELSE [tags |-> t.set, ids |-> ItemIds(acc.ids, item).set,
          raised |-> ItemIds(acc.ids, item).raised]

\* the loop over the records of one file; acc = [tags, ids, raised]. What was
\* added before an exception stays in the sets.
RECURSIVE CollectItems(_, _)
CollectItems(acc, items) ==
    IF items = <<>> \/ acc.raised THEN acc
    ELSE IF ~IsDict(items[1]) THEN [acc EXCEPT !.raised = TRUE]
    ELSE CollectItems(CollectItem(acc, ItemTags(acc.tags, items[1]), items[1]), Tail(items))

\* what the try block does with the loaded data: if data: for item in data: ...
LoadData(acc, loaded) ==
    IF loaded.raised \/ Falsy(loaded.data) THEN acc
    ELSE [CollectItems(acc, loaded.data[2]) EXCEPT !.raised = FALSE]

\* the body of the loop over the files for one file: try / except Exception
LoadFile(acc, content) == LoadData(acc, safe_load(content))

RECURSIVE LoadFiles(_, _, _)
LoadFiles(acc, dir, names) ==
    IF names = {} THEN acc
    ELSE LoadFiles(LoadFile(acc, dir[CHOOSE x \in names : TRUE]), dir,
                   names \ {CHOOSE x \in names : TRUE})

\* return sorted(all_tags), sorted(all_ids): sorted() is outside the try and
\* raises TypeError on a set that mixes types
SortedSets(acc) ==
    IF Comparable(acc.tags) /\ Comparable(acc.ids)
    THEN [raised |-> FALSE, tags |-> SortedSeq(acc.tags), ids |-> SortedSeq(acc.ids)]
    ELSE [raised |-> TRUE, tags |-> <<>>, ids |-> <<>>]

load_existing_data(dir) ==
    SortedSets(LoadFiles([tags |-> {}, ids |-> {}, raised |-> FALSE], dir, DOMAIN dir))

----------------------------------------------------------------------------
(* AIAgentService.extract_activity_info, from the completion response on   *)

\* a completion response: the call raised, or message.content is None, or it
\* is a text: the empty text, a text that is no JSON, or the text of a JSON value
RespException == <<"exception">>
RespNone == <<"none">>
RespText(doc) == <<"text", doc>>
DocEmpty == <<"empty">>
DocInvalid == <<"invalid">>
DocJson(value) == <<"json", value>>

\* what a call of the service gives its caller: an exception (raised), or the
\* dict {'success', 'error', 'warnings'} or {'success', 'data', 'warnings'}
Raised == [raised |-> TRUE, success |-> FALSE, error |-> <<>>, data |-> PyNone, warnings |-> PyNone]
Failure(text) ==
    [raised |-> FALSE, success |-> FALSE, error |-> text, data |-> PyNone, warnings |-> PyNone]
Success(data, warnings) ==
    [raised |-> FALSE, success |-> TRUE, error |-> <<>>, data |-> data, warnings |-> warnings]

\* extract_activity_info without its except clause: the exception leaves the service
AIFailedUncaught(cause) == Raised

\* the except clause of lines 267-271
AIFailed(cause) == Failure(<<Lit("AI extraction failed: "), Lit(cause)>>)

\* lines 249-265 without the `if not validation['valid']` branch
ValidationOutcomeUnchecked(extracted_data, existing_ids) ==
    IF validate_extracted_data(extracted_data, existing_ids).raised
    THEN AIFailed("AttributeError")
    ELSE Success(extracted_data, PyNone)

\* lines 249-265: validate, then the failure with the joined errors or the success
ValidationOutcome(extracted_data, existing_ids) ==
    LET validation == validate_extracted_data(extracted_data, existing_ids)
    IN  IF validation.raised THEN AIFailed("AttributeError")
        ELSE IF ~validation.valid
        THEN Failure(Join(Lit("; "), validation.errors[2]))
        ELSE Success(extracted_data, validation.warnings)

\* lines 224-271: the try block and its except Exception
CompletionOutcome(response, existing_ids) ==
    IF response = RespException THEN AIFailed("completion error")
    ELSE IF response = RespNone \/ response[2] = DocEmpty THEN AIFailed("No response from AI")
    ELSE IF response[2] = DocInvalid THEN AIFailed("JSONDecodeError")
    ELSE ValidationOutcome(response[2][2], existing_ids)

----------------------------------------------------------------------------
(* Values the checks draw their inputs from *)

MaxEvents == 2

C_t == <<"t">>
C_d == <<"d">>
C_a == <<"a">>
C_b == <<"b">>
C_x == <<"x">>
C_y == <<"y">>
C_1 == <<"1">>
C_l == <<"l">>
C_z == <<"z">>
C_conference == <<"c","o","n","f","e","r","e","n","c","e">>
C_competition == <<"c","o","m","p","e","t","i","t","i","o","n">>
C_activity == <<"a","c","t","i","v","i","t","y">>
C_webinar == <<"w","e","b","i","n","a","r">>
C_colon == <<"a", ":", " ", "b">>
C_dash == <<"-", " ", "a">>
C_yes == <<"y", "e", "s">>
C_pad == <<" ", "z">>

\* a key that the JSON object does not have
Absent == <<"absent">>
MkDict(fields) == PyDict([k \in {k \in DOMAIN fields : fields[k] # Absent} |-> fields[k]])

Entry == PyDict([deadline |-> PyStr(C_d), comment |-> PyStr(C_a)])

MkEvent(id, year, link, timeline, timezone) ==
    MkDict([id |-> id, year |-> year, link |-> link, timeline |-> timeline,
            timezone |-> timezone, date |-> PyStr(C_d), place |-> PyStr(C_a)])

IdVals == {PyStr(C_x), PyStr(C_y), PyStr(<<>>), PyInt(1), Absent}
YearVals == {PyInt(2025), PyInt(0), PyInt(-1), PyBool(TRUE), PyStr(C_1), Absent}
RestVals == {<<PyStr(C_l), PyList(<<Entry>>), PyStr(C_z)>>,
             <<Absent, PyList(<<Entry>>), PyStr(C_z)>>,
             <<PyStr(C_l), PyList(<<>>), PyStr(C_z)>>,
             <<PyStr(C_l), PyList(<<Entry>>), PyInt(8)>>}

EventVals == {MkEvent(id, year, r[1], r[2], r[3]) : id \in IdVals, year \in YearVals, r \in RestVals}

GoodEvent(id) == MkEvent(id, PyInt(2025), PyStr(C_l), PyList(<<Entry>>), PyStr(C_z))

\* the events after the first: sound ones, one without id and link, one that is no object
LaterEventVals == {GoodEvent(PyStr(C_x)), GoodEvent(PyStr(C_y)), GoodEvent(PyInt(1)),
                   MkEvent(Absent, PyInt(2025), Absent, PyList(<<Entry>>), PyStr(C_z)),
                   PyStr(C_x)}

RECURSIVE LaterLists(_)
LaterLists(n) ==
    IF n = 0 THEN {<<>>}
    ELSE {<<e>> \o r : e \in LaterEventVals, r \in LaterLists(n - 1)}

EventLists ==
    UNION {{<<e>> \o r : e \in EventVals, r \in LaterLists(n - 1)} : n \in 1..MaxEvents}

EventsVals == {Absent, PyList(<<>>), PyStr(C_x)} \cup {PyList(es) : es \in EventLists}

TitleVals == {PyStr(C_t), Absent}
DescriptionVals == {PyStr(C_d), PyStr(<<>>)}
CategoryVals == {PyStr(C_competition), PyStr(C_webinar), Absent}
TagsVals == {PyList(<<PyStr(C_a)>>), PyList(<<>>)}

RecordVals ==
    {MkDict([title |-> t, description |-> d, category |-> c, tags |-> g, events |-> e]) :
        t \in TitleVals, d \in DescriptionVals, c \in CategoryVals, g \in TagsVals,
        e \in EventsVals}

\* what json.loads can return besides a record object
JsonVals == RecordVals \cup {PyList(<<>>), PyNone}

KnownIdsVals == {<<>>, <<PyStr(C_x)>>, <<PyStr(C_x), PyStr(C_y)>>, <<PyInt(1)>>}

----------------------------------------------------------------------------
VARIABLES
    files,          \* the store directory: file name -> text ('' for no file)
    pc,             \* per process: where its run of the driver stands
    driver,         \* per process: the driver function that runs
    existing,       \* per process: existing_tags, existing_ids as loaded
    agent,          \* per process: the AIAgentService object
    result,         \* per process: what the service call returned
    yaml_content,   \* per process: the text to_yaml returned
    hist,           \* per process: what its run has done so far (history)
    ending,         \* per process: how its last run ended (history)
    nruns,          \* runs started so far
    nappends,       \* appends done so far
    overlapped,     \* some run started while another was under way (history)
    vpc, vdata, vknown, vresult, voutcome,   \* the validator on one input
    lpc, ldir, lresult,                      \* the loader on one directory
    rpc, rdata, rtext, rloaded,              \* to_yaml and the re-parse of one record
    qpc, qtags, qids, qcontent, qurl,        \* the prompts for one input
    qsystem, quser

pvars == <<files, pc, driver, existing, agent, result, yaml_content, hist, ending,
           nruns, nappends, overlapped>>
vvars == <<vpc, vdata, vknown, vresult, voutcome>>
lvars == <<lpc, ldir, lresult>>
rvars == <<rpc, rdata, rtext, rloaded>>
qvars == <<qpc, qtags, qids, qcontent, qurl, qsystem, quser>>
xvars == <<rvars, qvars>>
vars == <<pvars, vvars, lvars, xvars>>

FileNames == {OutputFile(c) : c \in Categories}

\* a record as the completion returns it, with one event per id of ids
RECURSIVE GoodEvents(_)
GoodEvents(ids) == IF ids = <<>> THEN <<>> ELSE <<GoodEvent(ids[1])>> \o GoodEvents(Tail(ids))
GoodRecord(title, category, tags, ids) ==
    PyDict([title |-> PyStr(title), description |-> PyStr(C_d), category |-> PyStr(category),
            tags |-> PyList(tags), events |-> PyList(GoodEvents(ids))])

\* the text of a store that holds the blocks of these records, as the drivers write them
RECURSIVE StoreOf(_)
StoreOf(records) ==
    IF records = <<>> THEN <<>>
    ELSE AppendBlock(StoreOf(SubSeq(records, 1, Len(records) - 1)),
                     to_yaml(records[Len(records)]).text)

\* a hand-edited block whose 'tags:' has no entries under it
NoTagsBlock ==
    <<NL, Lit("- title: "), Chars(C_t), NL, Lit("  description: "), Chars(C_d), NL,
      Lit("  category: "), Chars(C_activity), NL, Lit("  tags:"), NL, Lit("  events:"), NL>>

NoYaml == <<Lit("{ no yaml"), NL>>

\* the values of the result variables before the operation has run
NoValidation == [raised |-> FALSE, valid |-> FALSE, errors |-> PyNone, warnings |-> PyNone]
NoOutcome == Failure(<<>>)

NoneLoaded == [raised |-> FALSE, tags |-> <<>>, ids |-> <<>>]
VIdle == /\ vpc = "off" /\ vdata = PyNone /\ vknown = <<>>
         /\ vresult = NoValidation /\ voutcome = NoOutcome
LIdle == lpc = "off" /\ ldir = [n \in FileNames |-> <<>>] /\ lresult = NoneLoaded
NoText == [raised |-> FALSE, text |-> <<>>]
NoData == [raised |-> FALSE, data |-> PyNone]
RIdle == rpc = "off" /\ rdata = PyNone /\ rtext = NoText /\ rloaded = NoData
QIdle == /\ qpc = "off" /\ qtags = <<>> /\ qids = <<>> /\ qcontent = <<>> /\ qurl = <<>>
         /\ qsystem = <<>> /\ quser = <<>>
XIdle == RIdle /\ QIdle

----------------------------------------------------------------------------
(* The drivers: extract_from_url and extract_from_file of                  *)
(* extract_activity.py, extract_and_save of extract_for_actions.py         *)

MaxRuns == 2
Procs == {1, 2}
Drivers == {"extract_from_url", "extract_from_file", "extract_and_save"}

\* AI_PROVIDER: 'github' (the default), 'dashscope', or anything else
Providers == {"github", "dashscope", "openai"}
EnvVars == {"GITHUB_TOKEN", "DASHSCOPE_API_KEY", "OPENAI_API_KEY"}

KeyVar(provider) ==
    IF provider = "github" THEN "GITHUB_TOKEN"
    ELSE IF provider = "dashscope" THEN "DASHSCOPE_API_KEY"
    ELSE "OPENAI_API_KEY"

\* AIAgentService.__init__: self.openai is None without the api key of the provider
NewAgent(provider, env) == [provider |-> provider, openai |-> KeyVar(provider) \in env]
NoAgent == [provider |-> "", openai |-> FALSE]

\* extract_activity_info, lines 132-145: the error of a service without client
NotConfigured(provider) ==
    Failure(<<Lit(IF provider = "github" THEN "GitHub Models"
                  ELSE IF provider = "dashscope" THEN "DashScope" ELSE "OpenAI"),
              Lit(" API key not configured. Please set "),
              Lit(KeyVar(provider)),
              Lit(" environment variable.")>>)

\* AIAgentService.extract_from_url, lines 57-61: an exception of fetch_web_content
FetchFailed == Failure(<<Lit("Failed to extract from URL: "), Lit("fetch error")>>)

\* an append that looks the ids of the record up in the store as it is now
SaveGuardRecheck(p, choice) ==
    /\ choice
    /\ \A i \in DOMAIN result[p].data[2]["events"][2] :
          ~InList(result[p].data[2]["events"][2][i][2]["id"], load_existing_data(files).ids)

\* existing_tags[:20] and existing_ids[:10] go into the system prompt
TagHintMax == 20
IdHintMax == 10
\* a slice without its upper end: every element
TakeAll(xs, n) == xs

\* xs[:n]
Take(xs, n) == SubSeq(xs, 1, IF Len(xs) < n THEN Len(xs) ELSE n)

\* '、'.join(...) raises TypeError on an element that is not a str
PromptOk(existing_tags, existing_ids) ==
    /\ \A i \in DOMAIN Take(existing_tags, TagHintMax) : IsStr(existing_tags[i])
    /\ \A i \in DOMAIN Take(existing_ids, IdHintMax) : IsStr(existing_ids[i])

\* the except clause of extract_from_url (lines 57-61) or extract_from_file
\* (lines 79-83) on that TypeError
PromptFailed(d) ==
    Failure(<<Lit(IF d = "extract_from_file" THEN "Failed to extract from file: "
                  ELSE "Failed to extract from URL: "),
              Lit("TypeError")>>)

\* the only condition on the append: auto_save (extract_and_save), or the
\* answer 'y' to the prompt (the interactive driver)
SaveGuard(p, choice) == choice

GoodRecordA == GoodRecord(C_t, C_competition, <<PyStr(C_a)>>, <<PyStr(C_x)>>)
GoodRecordB == GoodRecord(C_t, C_conference, <<PyStr(C_b)>>, <<PyStr(C_x)>>)
TwinRecord == GoodRecord(C_t, C_activity, <<PyStr(C_a)>>, <<PyStr(C_y), PyStr(C_y)>>)
DigitTagRecord == GoodRecord(C_t, C_activity, <<PyStr(C_1)>>, <<PyStr(C_z)>>)
NoDateRecord ==
    PyDict([title |-> PyStr(C_t), description |-> PyStr(C_d), category |-> PyStr(C_activity),
            tags |-> PyList(<<PyStr(C_a)>>),
            events |-> PyList(<<PyDict([id |-> PyStr(C_l), year |-> PyInt(2025),
                                        link |-> PyStr(C_l), timeline |-> PyList(<<Entry>>),
                                        timezone |-> PyStr(C_z), place |-> PyStr(C_a)])>>)])
WebinarRecord == GoodRecord(C_t, C_webinar, <<PyStr(C_a)>>, <<PyStr(C_b)>>)
ColonTitleRecord == GoodRecord(C_colon, C_conference, <<PyStr(C_a)>>, <<PyStr(C_l)>>)
StringEventsRecord ==
    PyDict([title |-> PyStr(C_t), description |-> PyStr(C_d), category |-> PyStr(C_activity),
            tags |-> PyList(<<PyStr(C_a)>>), events |-> PyList(<<PyStr(C_x)>>)])

\* what the completion call can give
Responses ==
    {RespException, RespNone, RespText(DocEmpty), RespText(DocInvalid)}
    \cup {RespText(DocJson(v)) :
            v \in {GoodRecordA, GoodRecordB, TwinRecord, DigitTagRecord, NoDateRecord,
                   WebinarRecord, ColonTitleRecord, StringEventsRecord, PyList(<<>>)}}

\* the failure a response leads to (history only)
ResponseKind(response, existing_ids) ==
    IF response = RespException THEN "completion"
    ELSE IF response = RespNone \/ response[2] = DocEmpty THEN "empty"
    ELSE IF response[2] = DocInvalid THEN "parse"
    ELSE IF ~IsDict(response[2][2]) THEN "not an object"
    ELSE IF IsList(Get(response[2][2], "events"))
            /\ \E i \in DOMAIN Get(response[2][2], "events")[2] :
                  ~IsDict(Get(response[2][2], "events")[2][i])
    THEN "not an object"
    ELSE IF ~validate_extracted_data(response[2][2], existing_ids).valid THEN "schema"
    ELSE "none"

\* the event ids the stores hold as text: what follows '      id: ' on a line
IdsWritten(text) == {text[i + 1][2] : i \in {i \in 1..(Len(text) - 1) : text[i] = Lit("      id: ")}}
WrittenIds(dir) == UNION {IdsWritten(dir[n]) : n \in DOMAIN dir}

NoHist == [fetched |-> FALSE, completed |-> FALSE, cause |-> "none", prior |-> {}]
NoExisting == [tags |-> <<>>, ids |-> <<>>]

EmptyCorpus == [n \in FileNames |-> <<>>]
InitialCorpora ==
    {EmptyCorpus,
     [EmptyCorpus EXCEPT ![OutputFile(C_competition)] = StoreOf(<<GoodRecordA>>)]}

PIdle ==
    /\ files = EmptyCorpus
    /\ pc = [p \in Procs |-> "off"]
    /\ driver = [p \in Procs |-> "none"]
    /\ existing = [p \in Procs |-> NoExisting]
    /\ agent = [p \in Procs |-> NoAgent]
    /\ result = [p \in Procs |-> NoOutcome]
    /\ yaml_content = [p \in Procs |-> <<>>]
    /\ hist = [p \in Procs |-> NoHist]
    /\ ending = [p \in Procs |-> "none"]
    /\ nruns = 0
    /\ nappends = 0
    /\ overlapped = FALSE

Init ==
    /\ files \in InitialCorpora
    /\ pc = [p \in Procs |-> "idle"]
    /\ driver = [p \in Procs |-> "none"]
    /\ existing = [p \in Procs |-> NoExisting]
    /\ agent = [p \in Procs |-> NoAgent]
    /\ result = [p \in Procs |-> NoOutcome]
    /\ yaml_content = [p \in Procs |-> <<>>]
    /\ hist = [p \in Procs |-> NoHist]
    /\ ending = [p \in Procs |-> "none"]
    /\ nruns = 0
    /\ nappends = 0
    /\ overlapped = FALSE
    /\ VIdle
    /\ LIdle
    /\ XIdle

\* the process ends (how: history); its objects are gone
Exit(p, how) ==
    /\ pc' = [pc EXCEPT ![p] = "idle"]
    /\ driver' = [driver EXCEPT ![p] = "none"]
    /\ existing' = [existing EXCEPT ![p] = NoExisting]
    /\ agent' = [agent EXCEPT ![p] = NoAgent]
    /\ result' = [result EXCEPT ![p] = NoOutcome]
    /\ yaml_content' = [yaml_content EXCEPT ![p] = <<>>]
    /\ hist' = [hist EXCEPT ![p] = NoHist]
    /\ ending' = [ending EXCEPT ![p] = how]

\* main() calls the driver
Start(p) ==
    /\ pc[p] = "idle"
    /\ nruns < MaxRuns
    /\ \E d \in Drivers :
          /\ driver' = [driver EXCEPT ![p] = d]
          /\ pc' = [pc EXCEPT ![p] = IF d = "extract_from_file" THEN "read" ELSE "load"]
    /\ nruns' = nruns + 1
    /\ overlapped' = (overlapped \/ \E q \in Procs \ {p} : pc[q] # "idle")
    /\ hist' = [hist EXCEPT ![p].prior = WrittenIds(files)]
    /\ UNCHANGED <<files, existing, agent, result, yaml_content, ending, nappends,
                   vvars, lvars, xvars>>

\* extract_from_file, lines 119-124: the source file is read, or the run ends
ReadFile(p) ==
    /\ pc[p] = "read"
    /\ \E ok \in BOOLEAN :
          IF ok
          THEN /\ pc' = [pc EXCEPT ![p] = "load"]
               /\ UNCHANGED <<driver, existing, agent, result, yaml_content, hist, ending>>
          ELSE Exit(p, "source file unreadable")
    /\ UNCHANGED <<files, nruns, nappends, overlapped, vvars, lvars, xvars>>

\* existing_tags, existing_ids = load_existing_data(data_dir); an exception
\* of it ends the run in main()
LoadExisting(p) ==
    /\ pc[p] = "load"
    /\ LET loaded == load_existing_data(files)
       IN  IF loaded.raised
           THEN Exit(p, "load raised")
           ELSE /\ existing' = [existing EXCEPT ![p] = [tags |-> loaded.tags, ids |-> loaded.ids]]
                /\ pc' = [pc EXCEPT ![p] = "agent"]
                /\ UNCHANGED <<driver, agent, result, yaml_content, hist, ending>>
    /\ UNCHANGED <<files, nruns, nappends, overlapped, vvars, lvars, xvars>>

\* agent = AIAgentService()
CreateAgent(p) ==
    /\ pc[p] = "agent"
    /\ \E provider \in Providers, env \in SUBSET EnvVars :
          agent' = [agent EXCEPT ![p] = NewAgent(provider, env)]
    /\ pc' = [pc EXCEPT ![p] = "service"]
    /\ UNCHANGED <<files, driver, existing, result, yaml_content, hist, ending, nruns,
                   nappends, overlapped, vvars, lvars, xvars>>

\* agent.extract_from_url: fetch_web_content first, then extract_activity_info
Fetch(p) ==
    /\ pc[p] = "service"
    /\ driver[p] \in {"extract_from_url", "extract_and_save"}
    /\ \E ok \in BOOLEAN :
          IF ok
          THEN /\ pc' = [pc EXCEPT ![p] = "extract"]
               /\ hist' = [hist EXCEPT ![p].fetched = TRUE]
               /\ UNCHANGED result
          ELSE /\ pc' = [pc EXCEPT ![p] = "returned"]
               /\ hist' = [hist EXCEPT ![p].fetched = TRUE, ![p].cause = "fetch"]
               /\ result' = [result EXCEPT ![p] = FetchFailed]
    /\ UNCHANGED <<files, driver, existing, agent, yaml_content, ending, nruns, nappends,
                   overlapped, vvars, lvars, xvars>>

\* agent.extract_from_file: process_file_content, then extract_activity_info
ProcessFile(p) ==
    /\ pc[p] = "service"
    /\ driver[p] = "extract_from_file"
    /\ pc' = [pc EXCEPT ![p] = "extract"]
    /\ UNCHANGED <<files, driver, existing, agent, result, yaml_content, hist, ending,
                   nruns, nappends, overlapped, vvars, lvars, xvars>>

\* extract_activity_info without a client: the configuration error
ConfigError(p) ==
    /\ pc[p] = "extract"
    /\ ~agent[p].openai
    /\ result' = [result EXCEPT ![p] = NotConfigured(agent[p].provider)]
    /\ pc' = [pc EXCEPT ![p] = "returned"]
    /\ hist' = [hist EXCEPT ![p].cause = "config"]
    /\ UNCHANGED <<files, driver, existing, agent, yaml_content, ending, nruns, nappends,
                   overlapped, vvars, lvars, xvars>>

\* extract_activity_info with a client: the system prompt cannot be built from
\* the loaded tags and ids; the exception is caught by the caller in the service
PromptError(p) ==
    /\ pc[p] = "extract"
    /\ agent[p].openai
    /\ ~PromptOk(existing[p].tags, existing[p].ids)
    /\ result' = [result EXCEPT ![p] = PromptFailed(driver[p])]
    /\ pc' = [pc EXCEPT ![p] = "returned"]
    /\ hist' = [hist EXCEPT ![p].cause = "prompt"]
    /\ UNCHANGED <<files, driver, existing, agent, yaml_content, ending, nruns, nappends,
                   overlapped, vvars, lvars, xvars>>

\* extract_activity_info with a client: the completion call, json.loads,
\* validate_extracted_data and the outcome
Complete(p) ==
    /\ pc[p] = "extract"
    /\ agent[p].openai
    /\ PromptOk(existing[p].tags, existing[p].ids)
    /\ \E response \in Responses :
          LET outcome == CompletionOutcome(response, existing[p].ids)
          IN  /\ result' = [result EXCEPT ![p] = outcome]
              /\ hist' = [hist EXCEPT ![p].completed = TRUE,
                                      ![p].cause = ResponseKind(response, existing[p].ids)]
    /\ pc' = [pc EXCEPT ![p] = "returned"]
    /\ UNCHANGED <<files, driver, existing, agent, yaml_content, ending, nruns, nappends,
                   overlapped, vvars, lvars, xvars>>

\* the else branch of `if result['success']`: the error is printed, exit status 1
\* (an exception out of the service ends the run in main() the same way)
ReportFailure(p) ==
    /\ pc[p] = "returned"
    /\ result[p].raised \/ ~result[p].success
    /\ Exit(p, IF result[p].raised THEN "service raised" ELSE "failed")
    /\ UNCHANGED <<files, nruns, nappends, overlapped, vvars, lvars, xvars>>

\* yaml_content = agent.to_yaml(result['data']); an exception of it ends the run
Render(p) ==
    /\ pc[p] = "returned"
    /\ ~result[p].raised /\ result[p].success
    /\ LET rendered == to_yaml(result[p].data)
       IN  IF rendered.raised
           THEN Exit(p, "to_yaml raised")
           ELSE /\ yaml_content' = [yaml_content EXCEPT ![p] = rendered.text]
                /\ pc' = [pc EXCEPT ![p] = "confirm"]
                /\ UNCHANGED <<driver, existing, agent, result, hist, ending>>
    /\ UNCHANGED <<files, nruns, nappends, overlapped, vvars, lvars, xvars>>

\* with open(output_file, 'a'): the block is appended to the store of the category
Save(p) ==
    /\ pc[p] = "confirm"
    /\ \E choice \in BOOLEAN : SaveGuard(p, choice)
    /\ files' = [files EXCEPT ![OutputFile(result[p].data[2]["category"][2])] =
                                  AppendBlock(@, yaml_content[p])]
    /\ nappends' = nappends + 1
    /\ Exit(p, "saved")
    /\ UNCHANGED <<nruns, overlapped, vvars, lvars, xvars>>

\* auto_save is off, or the answer to the prompt is not 'y': nothing is written
Skip(p) ==
    /\ pc[p] = "confirm"
    /\ \E choice \in BOOLEAN : ~SaveGuard(p, choice)
    /\ Exit(p, "not saved")
    /\ UNCHANGED <<files, nruns, nappends, overlapped, vvars, lvars, xvars>>

Next ==
    \E p \in Procs :
        \/ Start(p)
        \/ ReadFile(p)
        \/ LoadExisting(p)
        \/ CreateAgent(p)
        \/ Fetch(p)
        \/ ProcessFile(p)
        \/ ConfigError(p)
        \/ PromptError(p)
        \/ Complete(p)
        \/ ReportFailure(p)
        \/ Render(p)
        \/ Save(p)
        \/ Skip(p)

Spec == Init /\ [][Next]_vars

(* The validator and the outcome of a completion, on every bounded input *)
InitValidate ==
    /\ vpc = "input"
    /\ vdata \in JsonVals
    /\ vknown \in KnownIdsVals
    /\ vresult = NoValidation
    /\ voutcome = NoOutcome
    /\ LIdle
    /\ PIdle
    /\ XIdle

Validate ==
    /\ vpc = "input"
    /\ vpc' = "validated"
    /\ vresult' = validate_extracted_data(vdata, vknown)
    /\ UNCHANGED <<vdata, vknown, voutcome, lvars, pvars, xvars>>

Extract ==
    /\ vpc = "validated"
    /\ vpc' = "extracted"
    /\ voutcome' = CompletionOutcome(RespText(DocJson(vdata)), vknown)
    /\ UNCHANGED <<vdata, vknown, vresult, lvars, pvars, xvars>>

NextValidate == Validate \/ Extract

SpecValidate == InitValidate /\ [][NextValidate]_vars

----------------------------------------------------------------------------
(* Claims about validate_extracted_data and the outcome built from it *)

HasError(validation, e) ==
    validation.errors # PyNone
    /\ \E k \in DOMAIN validation.errors[2] : validation.errors[2][k] = e

VEvents == IF IsDict(vdata) /\ IsList(Get(vdata, "events")) THEN Get(vdata, "events")[2] ELSE <<>>

\* event i (from 1) is an object whose id is an element of known_ids
KnownIdAt(i) == IsDict(VEvents[i]) /\ InList(Get(VEvents[i], "id"), vknown)

DuplicateErrorOf(i) ==
    EventPrefix(i - 1)
    \o <<Lit("Duplicate ID '"), Chars(PyFormat(Get(VEvents[i], "id"))), Lit("'")>>

\* C4 as stated: an event whose id is an element of known_ids makes the
\* validator return valid=false with the error 'Event i: Duplicate ID <id>',
\* whatever the other fields of the event and of the record are.
C4_DuplicateAlwaysReported ==
    vpc # "input" =>
        \A i \in DOMAIN VEvents :
            KnownIdAt(i) =>
                /\ ~vresult.raised
                /\ ~vresult.valid
                /\ HasError(vresult, DuplicateErrorOf(i))

\* C4 as amended: when the validator returns, the record is invalid; the error
\* of that event is the duplicate-id error when the id is a non-empty string
\* and the missing-or-invalid-id error otherwise. The validator raises
\* instead of returning exactly when some event is not an object.
C4_KnownIdRejected ==
    vpc # "input" =>
        \A i \in DOMAIN VEvents :
            KnownIdAt(i) =>
                /\ vresult.raised <=> (\E j \in DOMAIN VEvents : ~IsDict(VEvents[j]))
                /\ ~vresult.valid
                /\ ~vresult.raised =>
                     IF IsStr(Get(VEvents[i], "id")) /\ Get(VEvents[i], "id")[2] # <<>>
                     THEN HasError(vresult, DuplicateErrorOf(i))
                          /\ ~HasError(vresult, ErrEventId(i - 1))
                     ELSE HasError(vresult, ErrEventId(i - 1))
                          /\ ~HasError(vresult, DuplicateErrorOf(i))

\* C4 witness: the second event carries a known string id, the title is missing
\* and the year of that event is invalid, and the duplicate error names index 1
C4_Witness ==
    /\ vpc = "validated"
    /\ Len(VEvents) = 2
    /\ KnownIdAt(2)
    /\ Get(vdata, "title") = PyNone
    /\ HasError(vresult, ErrTitle)
    /\ HasError(vresult, ErrEventDuplicate(1, C_x))

\* the rules in the order the validator checks them: <<rule, event position>>
RECURSIVE EventRules(_, _)
EventRules(i, n) ==
    IF i > n THEN <<>>
    ELSE << <<"id", i>>, <<"year", i>>, <<"link", i>>, <<"timeline", i>>, <<"timezone", i>> >>
         \o EventRules(i + 1, n)

RuleOrder ==
    << <<"title", 0>>, <<"description", 0>>, <<"category", 0>>, <<"tags", 0>>, <<"events", 0>> >>
    \o EventRules(1, Len(VEvents))

Missing(d, k) == Falsy(Get(d, k))

\* rule r is violated by the record under validation
Violated(r) ==
    CASE r[1] = "title" -> Missing(vdata, "title") \/ ~IsStr(Get(vdata, "title"))
      [] r[1] = "description" -> Missing(vdata, "description") \/ ~IsStr(Get(vdata, "description"))
      [] r[1] = "category" -> Get(vdata, "category") \notin {PyStr(c) : c \in Categories}
      [] r[1] = "tags" -> ~IsList(Get(vdata, "tags")) \/ Get(vdata, "tags")[2] = <<>>
      [] r[1] = "events" -> ~IsList(Get(vdata, "events")) \/ Get(vdata, "events")[2] = <<>>
      [] r[1] = "id" -> \/ Missing(VEvents[r[2]], "id")
                        \/ ~IsStr(Get(VEvents[r[2]], "id"))
                        \/ InList(Get(VEvents[r[2]], "id"), vknown)
      [] r[1] = "year" -> Missing(VEvents[r[2]], "year") \/ ~IsInt(Get(VEvents[r[2]], "year"))
      [] r[1] = "link" -> Missing(VEvents[r[2]], "link") \/ ~IsStr(Get(VEvents[r[2]], "link"))
      [] r[1] = "timeline" -> \/ ~IsList(Get(VEvents[r[2]], "timeline"))
                              \/ Get(VEvents[r[2]], "timeline")[2] = <<>>
      [] r[1] = "timezone" -> Missing(VEvents[r[2]], "timezone")
                              \/ ~IsStr(Get(VEvents[r[2]], "timezone"))

ViolatedRules == SelectSeq(RuleOrder, Violated)

\* the rule an error string belongs to, read off its text
RuleOfError(e) ==
    IF Len(e) = 1
    THEN CASE e = ErrTitle -> <<"title", 0>>
           [] e = ErrDescription -> <<"description", 0>>
           [] e = ErrCategory -> <<"category", 0>>
           [] e = ErrTags -> <<"tags", 0>>
           [] e = ErrEvents -> <<"events", 0>>
    ELSE LET i == NatVal(e[2][2]) + 1
         IN  CASE e[4] \in {Lit("Missing or invalid id"), Lit("Duplicate ID '")} -> <<"id", i>>
               [] e[4] = Lit("Missing or invalid year") -> <<"year", i>>
               [] e[4] = Lit("Missing or invalid link") -> <<"link", i>>
               [] e[4] = Lit("Timeline must be a non-empty array") -> <<"timeline", i>>
               [] e[4] = Lit("Missing or invalid timezone") -> <<"timezone", i>>

\* the texts between the '; ' separators of a joined message
RECURSIVE SplitAt(_, _, _)
SplitAt(text, sep, cur) ==
    IF text = <<>> THEN <<cur>>
    ELSE IF text[1] = sep THEN <<cur>> \o SplitAt(Tail(text), sep, <<>>)
    ELSE SplitAt(Tail(text), sep, Append(cur, text[1]))

AllDicts == IsDict(vdata) /\ \A j \in DOMAIN VEvents : IsDict(VEvents[j])

IsInteger(v) == v[1] = "int"
PresentStr(v) == IsStr(v) /\ v[2] # <<>>
ClaimedEventOk(event) ==
    /\ PresentStr(Get(event, "id")) /\ ~InList(Get(event, "id"), vknown)
    /\ IsInteger(Get(event, "year"))
    /\ PresentStr(Get(event, "link"))
    /\ IsList(Get(event, "timeline")) /\ Get(event, "timeline")[2] # <<>>
    /\ PresentStr(Get(event, "timezone"))
ClaimedValid ==
    /\ PresentStr(Get(vdata, "title"))
    /\ PresentStr(Get(vdata, "description"))
    /\ Get(vdata, "category") \in {PyStr(c) : c \in Categories}
    /\ IsList(Get(vdata, "tags")) /\ Get(vdata, "tags")[2] # <<>>
    /\ IsList(Get(vdata, "events")) /\ Get(vdata, "events")[2] # <<>>
    /\ \A i \in DOMAIN VEvents : ClaimedEventOk(VEvents[i])

\* C6 as stated: the validator returns valid=true exactly for the records of
\* the described shape, where the year is any integer (0 and negatives
\* included) and nothing that is not an integer (a boolean); strings are
\* present, that is non-empty.
C6_ValidIffSchema ==
    (vpc # "input" /\ AllDicts) => (vresult.valid <=> ClaimedValid)

----------------------------------------------------------------------------
(* load_existing_data on bounded store directories *)

StoreVals ==
    {<<>>,
     StoreOf(<<GoodRecord(C_t, C_competition, <<PyStr(C_a)>>, <<PyStr(C_x)>>)>>),
     StoreOf(<<GoodRecord(C_t, C_conference, <<PyStr(C_b), PyStr(C_a)>>, <<PyStr(C_y), PyStr(C_z)>>)>>),
     StoreOf(<<GoodRecord(C_t, C_activity, <<PyStr(C_1)>>, <<PyStr(C_l)>>)>>),
     StoreOf(<<GoodRecord(C_t, C_activity, <<PyStr(C_l)>>, <<PyStr(C_d)>>)>>) \o NoYaml,
     StoreOf(<<GoodRecord(C_t, C_activity, <<PyStr(C_z)>>, <<PyStr(C_t)>>)>>) \o NoTagsBlock,
     NoYaml}

InitLoad ==
    /\ lpc = "input"
    /\ ldir \in [FileNames -> StoreVals]
    /\ lresult = NoneLoaded
    /\ VIdle
    /\ PIdle
    /\ XIdle

Load ==
    /\ lpc = "input"
    /\ lpc' = "loaded"
    /\ lresult' = load_existing_data(ldir)
    /\ UNCHANGED <<ldir, vvars, pvars, xvars>>

NextLoad == Load

SpecLoad == InitLoad /\ [][NextLoad]_vars

\* a file is well-formed when it is read, parsed and processed without an exception
WellFormed(content) ==
    /\ ~safe_load(content).raised
    /\ Falsy(safe_load(content).data)
       \/ ~CollectItems([tags |-> {}, ids |-> {}, raised |-> FALSE],
                        safe_load(content).data[2]).raised

RECURSIVE Flatten(_)
Flatten(seqs) == IF seqs = <<>> THEN <<>> ELSE seqs[1] \o Flatten(Tail(seqs))

TagsOfItem(item) == {item[2]["tags"][2][k] : k \in DOMAIN item[2]["tags"][2]}
IdsOfItem(item) == {item[2]["events"][2][k][2]["id"] : k \in DOMAIN item[2]["events"][2]}
ItemsOf(content) ==
    IF Falsy(safe_load(content).data) THEN {}
    ELSE {safe_load(content).data[2][k] : k \in DOMAIN safe_load(content).data[2]}

WellFormedTags == UNION {TagsOfItem(item) : item \in UNION {ItemsOf(ldir[n]) : n \in {n \in FileNames : WellFormed(ldir[n])}}}
WellFormedIds == UNION {IdsOfItem(item) : item \in UNION {ItemsOf(ldir[n]) : n \in {n \in FileNames : WellFormed(ldir[n])}}}

Range(seq) == {seq[k] : k \in DOMAIN seq}
StrictlySorted(seq) ==
    \A k \in 1..(Len(seq) - 1) : PyLeq(seq[k], seq[k + 1]) /\ seq[k] # seq[k + 1]

\* C9 as stated: load_existing_data never raises, and returns exactly the tags
\* and the ids of the well-formed files, with nothing from a file that fails
\* while it is read or processed, as sorted sequences without duplicates.
C9_LoadSkipsFailingFiles ==
    lpc = "loaded" =>
        /\ ~lresult.raised
        /\ Range(lresult.tags) = WellFormedTags
        /\ Range(lresult.ids) = WellFormedIds
        /\ StrictlySorted(lresult.tags)
        /\ StrictlySorted(lresult.ids)

\* C9, first half alone: load_existing_data does not raise
C9_LoadNeverRaises == lpc = "loaded" => ~lresult.raised

\* C9, second half alone: when it returns, nothing comes from a failing file
C9_NothingFromFailingFile ==
    (lpc = "loaded" /\ ~lresult.raised) =>
        /\ Range(lresult.tags) = WellFormedTags
        /\ Range(lresult.ids) = WellFormedIds

----------------------------------------------------------------------------
(* Claims about the runs of the drivers *)

\* a step of process p
StepOf(p) == pc'[p] # pc[p]

\* C1: a step that changes a store is the append of a run whose completion
\* response was parsed and whose record validate_extracted_data found valid
\* against the ids the run loaded, and that step ends the run, so that a run
\* appends at most once; a run that has failed (fetch, configuration,
\* completion, parse or schema failure) changes no store.
C1_OneAppendAfterValidation ==
    [][/\ files' # files =>
            \E p \in Procs :
                /\ pc[p] = "confirm"
                /\ hist[p].completed
                /\ hist[p].cause = "none"
                /\ result[p].success
                /\ ~validate_extracted_data(result[p].data, existing[p].ids).raised
                /\ validate_extracted_data(result[p].data, existing[p].ids).valid
                /\ pc'[p] = "idle"
                /\ ending'[p] = "saved"
                /\ nappends' = nappends + 1
       /\ \A p \in Procs : (StepOf(p) /\ hist[p].cause # "none") => files' = files
       /\ \A p \in Procs :
            (StepOf(p) /\ ending'[p] \in {"failed", "service raised", "to_yaml raised",
                                          "load raised", "source file unreadable", "not saved"})
                => files' = files]_vars

\* C1 witness: a run has appended its record, another one has failed
C1_Witness ==
    /\ nappends = 1
    /\ \E p, q \in Procs : ending[p] = "saved" /\ ending[q] = "failed"
    /\ \E f \in FileNames : files[f] = StoreOf(<<TwinRecord>>)

\* the stores in a fixed order, and the events of the records they hold
FileOrder == <<OutputFile(C_conference), OutputFile(C_competition), OutputFile(C_activity)>>
RecordsOf(content) ==
    IF safe_load(content).raised \/ ~IsList(safe_load(content).data) THEN <<>>
    ELSE safe_load(content).data[2]
EventsOfRecord(record) ==
    IF IsDict(record) /\ IsList(Get(record, "events")) THEN Get(record, "events")[2] ELSE <<>>
EventsOfStore(content) ==
    Flatten([k \in DOMAIN RecordsOf(content) |-> EventsOfRecord(RecordsOf(content)[k])])
CorpusEvents == Flatten([k \in DOMAIN FileOrder |-> EventsOfStore(files[FileOrder[k]])])
SharedId == \E i, j \in DOMAIN CorpusEvents :
                i # j /\ Get(CorpusEvents[i], "id") = Get(CorpusEvents[j], "id")

\* C2 as stated: as long as no two runs have overlapped, no two events of the
\* corpus share an id, be they in one record, in two records or in two stores.
C2_UniqueIdsAfterSequentialRuns == ~overlapped => ~SharedId

\* C3 as stated: a run that ends with the 'API key not configured' error has
\* made neither the HTTP fetch nor the completion call.
C3_ConfigErrorBeforeNetwork ==
    \A p \in Procs :
        (pc[p] = "returned" /\ hist[p].cause = "config")
            => (~hist[p].fetched /\ ~hist[p].completed)

FailureKinds == {"config", "fetch", "prompt", "completion", "empty", "parse", "not an object", "schema"}
IsText(t) == t # <<>> /\ \A i \in DOMAIN t : t[i][1] \in {"lit", "chars"}

\* C7: whatever the failure kind, the service call returns an outcome with
\* success = false and an error text; it does not raise and does not report
\* success, and no run ends by an exception of the service.
C7_FailuresAreOutcomes ==
    \A p \in Procs :
        /\ (pc[p] = "returned" /\ hist[p].cause \in FailureKinds) =>
              /\ ~result[p].raised
              /\ ~result[p].success
              /\ IsText(result[p].error)
        /\ ending[p] # "service raised"

\* C7 witness: a completion whose events are not objects came back as the
\* failure of the except clause
C7_Witness ==
    \E p \in Procs :
        /\ pc[p] = "returned"
        /\ hist[p].cause = "not an object"
        /\ result[p].error = <<Lit("AI extraction failed: "), Lit("AttributeError")>>

\* C8: a step that changes the stores changes one store only, the one of the
\* category of the record of a run that is about to save, and what that store
\* holds afterwards is what it held before, a newline, the text to_yaml gives
\* for that record and a newline.
C8_AppendOnlyByCategory ==
    [][files' # files =>
          \E p \in Procs :
              /\ pc[p] = "confirm"
              /\ \E f \in FileNames :
                    /\ f = result[p].data[2]["category"][2] \o <<"s", ".", "y", "m", "l">>
                    /\ files'[f] = files[f] \o <<NL>> \o to_yaml(result[p].data).text \o <<NL>>
                    /\ \A g \in FileNames \ {f} : files'[g] = files[g]]_vars

\* C8 witness: a store that held a record got a second one after it
C8_Witness ==
    /\ nappends = 2
    /\ files[OutputFile(C_activity)] = StoreOf(<<TwinRecord, DigitTagRecord>>)
    /\ files[OutputFile(C_conference)] = <<>>

\* C10: nothing but the choice to save guards the append: a run that has a
\* record valid against the ids it loaded can append it whatever the stores
\* hold by then (the condition of Save holds for the choice to save).
C10_AppendUnguarded ==
    \A p \in Procs :
        pc[p] = "confirm" =>
            /\ validate_extracted_data(result[p].data, existing[p].ids).valid
            /\ \E choice \in BOOLEAN : SaveGuard(p, choice)

\* C10 witness: two runs that overlapped have both appended a record with the
\* event id x, one to the competitions store and one to the conferences store
C10_Witness ==
    /\ overlapped
    /\ nappends = 2
    /\ files[OutputFile(C_competition)] = StoreOf(<<GoodRecordA>>)
    /\ files[OutputFile(C_conference)] = StoreOf(<<GoodRecordB>>)
    /\ SharedId

----------------------------------------------------------------------------
(* to_yaml and the re-parse of its text, on bounded valid records *)

\* a record with one event and two tags, as a completion can return it
RtRecord(title, tag, id, year, link, timezone, place, deadline) ==
    PyDict([title |-> PyStr(title), description |-> PyStr(C_d),
            category |-> PyStr(C_activity),
            tags |-> PyList(<<PyStr(tag), PyStr(C_a)>>),
            events |-> PyList(<<MkDict([id |-> PyStr(id), year |-> year, link |-> PyStr(link),
                                        timeline |-> PyList(<<PyDict([deadline |-> PyStr(deadline),
                                                                      comment |-> PyStr(C_a)])>>),
                                        timezone |-> PyStr(timezone), date |-> PyStr(C_d),
                                        place |-> place])>>)])

RtRecords ==
    {RtRecord(title, tag, id, year, link, timezone, place, deadline) :
        title \in {C_t, C_colon}, tag \in {C_a, C_dash, C_1, C_yes}, id \in {C_x, C_1},
        year \in {PyInt(2025), PyInt(-1), PyBool(TRUE)}, link \in {C_l, C_colon},
        timezone \in {C_z, C_pad}, place \in {PyStr(C_a), PyStr(<<"a", ":">>), Absent},
        deadline \in {C_d, C_colon}}

InitRoundTrip ==
    /\ rpc = "input"
    /\ rdata \in {r \in RtRecords : validate_extracted_data(r, <<>>).valid}
    /\ rtext = NoText
    /\ rloaded = NoData
    /\ QIdle
    /\ VIdle
    /\ LIdle
    /\ PIdle

\* yaml_content = agent.to_yaml(result['data'])
Serialize ==
    /\ rpc = "input"
    /\ rpc' = "serialized"
    /\ rtext' = to_yaml(rdata)
    /\ UNCHANGED <<rdata, rloaded, qvars, vvars, lvars, pvars>>

\* the block is appended to an empty store, and the store is loaded
Reparse ==
    /\ rpc = "serialized"
    /\ ~rtext.raised
    /\ rpc' = "reparsed"
    /\ rloaded' = safe_load(AppendBlock(<<>>, rtext.text))
    /\ UNCHANGED <<rdata, rtext, qvars, vvars, lvars, pvars>>

NextRoundTrip == Serialize \/ Reparse

SpecRoundTrip == InitRoundTrip /\ [][NextRoundTrip]_vars

SameEvent(a, b) ==
    /\ IsDict(b)
    /\ \A k \in {"id", "year", "link", "timezone", "place", "timeline"} : Get(b, k) = Get(a, k)

SameRecord(a, b) ==
    /\ IsDict(b)
    /\ \A k \in {"title", "category", "tags"} : Get(b, k) = Get(a, k)
    /\ IsList(Get(b, "events"))
    /\ Len(Get(b, "events")[2]) = Len(Get(a, "events")[2])
    /\ \A i \in DOMAIN Get(a, "events")[2] :
          SameEvent(Get(a, "events")[2][i], Get(b, "events")[2][i])

\* C11 as stated: a record that passed validation is serialized by to_yaml, and
\* the text parsed again as a store entry is one record with the same title,
\* category and tags in order, and for every event the same id, year, link,
\* timezone, place and timeline deadline/comment pairs.
C11_RoundTrip ==
    /\ rpc = "serialized" => ~rtext.raised
    /\ rpc = "reparsed" =>
          /\ ~rloaded.raised
          /\ IsList(rloaded.data)
          /\ Len(rloaded.data[2]) = 1
          /\ SameRecord(rdata, rloaded.data[2][1])

\* C11, the part that holds: a record whose plain scalars are letters only
\* comes back as it was
C11_PlainRecordsRoundTrip ==
    (rpc = "reparsed"
     /\ rdata = RtRecord(C_t, C_a, C_x, PyInt(2025), C_l, C_z, PyStr(C_a), C_colon))
        => (~rloaded.raised /\ SameRecord(rdata, rloaded.data[2][1]))

----------------------------------------------------------------------------
(* The prompts of extract_activity_info (lines 147-222), on bounded inputs. *)
(* The fixed texts of the prompts are named pieces: the source writes them  *)
(* in Chinese, and only their places in the prompts matter.                 *)

\* content[:8000]
ContentMax == 8000

SystemHead == Lit("<system prompt up to the hints>")
TagsLabel == Lit("<suggested tags (use first): >")
IdsLabel == Lit("<existing ids (avoid duplicates): >")
SystemTail == Lit("<example output>")
\* U+65E0 'none', U+7B49 'and more', U+3001 the enumeration comma
NoneMark == Lit("<none>")
MoreMark == Lit("<and more>")
HintSep == Lit("<,>")
UserUrlHead == Lit("<extract from this web page>\n\n<source URL>: ")
UserUrlContent == Lit("\n\n<content>:\n")
UserFileHead == Lit("<extract from this content>\n\n")

\* sep.join(values) of strs
JoinHints(values) == Join(HintSep, [i \in DOMAIN values |-> <<Chars(values[i][2])>>])

\* line 195
TagHints(existing_tags) ==
    IF existing_tags = <<>> THEN <<NoneMark>>
    ELSE JoinHints(Take(existing_tags, TagHintMax))

\* line 196
IdHints(existing_ids) ==
    IF existing_ids = <<>> THEN <<NoneMark>>
    ELSE JoinHints(Take(existing_ids, IdHintMax))
         \o (IF Len(existing_ids) > IdHintMax THEN <<MoreMark>> ELSE <<>>)

SystemPrompt(existing_tags, existing_ids) ==
    <<SystemHead, TagsLabel>> \o TagHints(existing_tags)
    \o <<NL, IdsLabel>> \o IdHints(existing_ids) \o <<NL, SystemTail>>

\* lines 219-222
UserPrompt(content, source_url) ==
    IF source_url # <<>>
    THEN <<UserUrlHead, Chars(source_url), UserUrlContent, Chars(Take(content, ContentMax))>>
    ELSE <<UserFileHead, Chars(Take(content, ContentMax))>>

MaxTags == 22
MaxIds == 12
MaxExtra == 2

\* n distinct strs, and a content of n characters
Names(n) == [i \in 1..n |-> PyStr(NatChars(i))]
ContentOf(n) == [i \in 1..n |-> Digit(i % 10)]
ContentLens == {0, 1, ContentMax - 1, ContentMax} \cup {ContentMax + k : k \in 1..MaxExtra}

InitPrompt ==
    /\ qpc = "input"
    /\ qtags \in {Names(n) : n \in 0..MaxTags}
    /\ qids \in {Names(n) : n \in 0..MaxIds}
    /\ qcontent \in {ContentOf(n) : n \in ContentLens}
    /\ qurl \in {<<>>, <<"u">>}
    /\ qsystem = <<>>
    /\ quser = <<>>
    /\ RIdle
    /\ VIdle
    /\ LIdle
    /\ PIdle

BuildSystem ==
    /\ qpc = "input"
    /\ qpc' = "system"
    /\ qsystem' = SystemPrompt(qtags, qids)
    /\ UNCHANGED <<qtags, qids, qcontent, qurl, quser, rvars, vvars, lvars, pvars>>

BuildUser ==
    /\ qpc = "system"
    /\ qpc' = "user"
    /\ quser' = UserPrompt(qcontent, qurl)
    /\ UNCHANGED <<qtags, qids, qcontent, qurl, qsystem, rvars, vvars, lvars, pvars>>

NextPrompt == BuildSystem \/ BuildUser

SpecPrompt == InitPrompt /\ [][NextPrompt]_vars

\* where a fixed piece stands in a text, and the pieces between two places
PosOf(text, piece) == CHOOSE i \in DOMAIN text : text[i] = piece
IsValuePiece(piece) == piece[1] = "chars"
ValuesIn(text, from, to) ==
    [i \in DOMAIN SelectSeq(SubSeq(text, from, to), IsValuePiece) |->
        SelectSeq(SubSeq(text, from, to), IsValuePiece)[i][2]]
Holds(text, from, to, piece) == \E i \in from..to : text[i] = piece
Smaller(a, b) == IF a < b THEN a ELSE b
Firsts(values, n) == [i \in 1..Smaller(n, Len(values)) |-> values[i][2]]

TagsFrom == PosOf(qsystem, TagsLabel) + 1
TagsTo == PosOf(qsystem, IdsLabel) - 2
IdsFrom == PosOf(qsystem, IdsLabel) + 1
IdsTo == Len(qsystem) - 2

\* C12: the system prompt holds the first min(20, n) tags and the first
\* min(10, m) ids in their order, the 'and more' mark after the ids exactly
\* when m > 10, and the 'none' mark exactly for an empty list; the user prompt
\* holds the first 8000 characters of the content (all of a shorter one) and the
\* source URL line exactly when the source URL is not empty.
C12_PromptsBoundInputs ==
    /\ qpc # "input" =>
          /\ ValuesIn(qsystem, TagsFrom, TagsTo) = Firsts(qtags, 20)
          /\ ValuesIn(qsystem, IdsFrom, IdsTo) = Firsts(qids, 10)
          /\ Holds(qsystem, IdsFrom, IdsTo, MoreMark) <=> Len(qids) > 10
          /\ Len(qids) > 10 => qsystem[IdsTo] = MoreMark
          /\ ~Holds(qsystem, TagsFrom, TagsTo, MoreMark)
          /\ Holds(qsystem, TagsFrom, TagsTo, NoneMark) <=> qtags = <<>>
          /\ Holds(qsystem, IdsFrom, IdsTo, NoneMark) <=> qids = <<>>
    /\ qpc = "user" =>
          /\ quser[Len(quser)] =
                Chars(SubSeq(qcontent, 1, Smaller(8000, Len(qcontent))))
          /\ Holds(quser, 1, Len(quser), UserUrlHead) <=> qurl # <<>>
          /\ qurl # <<>> => quser[PosOf(quser, UserUrlHead) + 1] = Chars(qurl)
          /\ ValuesIn(quser, 1, Len(quser) - 1) = (IF qurl # <<>> THEN <<qurl>> ELSE <<>>)

\* C12 witness: 21 tags, 11 ids, a content of 8001 characters and a source URL:
\* the 21st tag, the 11th id and the last character are left out
C12_Witness ==
    /\ qpc = "user"
    /\ Len(qtags) = 21 /\ Len(qids) = 11 /\ Len(qcontent) = 8001 /\ qurl # <<>>
    /\ Len(ValuesIn(qsystem, TagsFrom, TagsTo)) = 20
    /\ Len(ValuesIn(qsystem, IdsFrom, IdsTo)) = 10
    /\ qsystem[IdsTo] = MoreMark
    /\ Len(quser[Len(quser)][2]) = 8000

----------------------------------------------------------------------------
(* Runs that start after an append *)

EventIdsOf(data) ==
    {data[2]["events"][2][i][2]["id"] : i \in DOMAIN data[2]["events"][2]}

\* C13 as stated: a run that started when the stores held an event id (every
\* store text is made of appended blocks) has that id among the ids it loaded,
\* and a record that reuses such an id does not get to the append.
C13_LaterRunSeesAppendedIds ==
    \A p \in Procs :
        /\ pc[p] \in {"agent", "service", "extract", "returned", "confirm"} =>
              \A id \in hist[p].prior : InList(PyStr(id), existing[p].ids)
        /\ pc[p] = "confirm" =>
              \A id \in hist[p].prior : PyStr(id) \notin EventIdsOf(result[p].data)

\* C13, the second half alone: a record that reuses a stored id is not appended
C13_ReusedIdNeverAppended ==
    \A p \in Procs :
        pc[p] = "confirm" =>
            \A id \in hist[p].prior : PyStr(id) \notin EventIdsOf(result[p].data)

====
